---------------------------- MODULE Spec2Model ----------------------------
(***************************************************************************)
(* A model of the clinica command line (clinica/cmdline.py) and of the     *)
(* AnatLinear pipeline (clinica/pipelines/t1_linear/anat_linear_pipeline). *)
(*                                                                         *)
(* Five specifications share the variables below:                          *)
(*   SpecExec    execute(): parsing, the checks, the dispatch to func      *)
(*   SpecVis     load_conf() and visualize() called as module functions    *)
(*   SpecLoader  ClinicaClassLoader.load()                                 *)
(*   SpecPipe    AnatLinear: the three build methods, on any input         *)
(*   SpecRun     AnatLinear: the build, then a run of the graph            *)
(* Python strings are sequences of one-character strings, so that replace, *)
(* strip, split and the regular expression are computed, not assumed.      *)
(***************************************************************************)
EXTENDS Integers, Sequences, FiniteSets, TLC

VARIABLES
    \* execute()
    pc,          \* position in execute()
    args,        \* the parsed namespace, or None
    unknown,     \* the arguments parse_known_args did not recognise
    called,      \* the handlers invoked so far, in order
    stdoutFiltered, \* sys.stdout was wrapped in FilterOut
    \* the process and its environment
    exitStatus,  \* NoExit, or the status given to exit()
    raised,      \* NoExc, or the exception that ended the run
    printed,     \* the messages printed
    cwd,         \* the working directory
    isdir,       \* path -> os.path.isdir(path)
    pkl,         \* path -> what <path>/clinica.pkl holds
    chdirs,      \* the directories os.chdir moved to, in order
    launched,    \* the subprocess.Popen calls made: [argv, cwd]
    \* load_conf() / visualize() as functions
    vpc,         \* position of the caller of load_conf and visualize
    confArgs,    \* the argument load_conf was called with
    wk,          \* what load_conf returned
    \* ClinicaClassLoader
    lpc,         \* position of the caller of load()
    environ,     \* whether os.environ has the key self.env
    rootIsDir,   \* whether $CLINICAPATH/extra_dir is a directory
    tree,        \* the entries under $CLINICAPATH/extra_dir
    sysPath,     \* the entries of sys.path added so far
    imported,    \* the files handed to imp.load_source, in order
    parsers,     \* what load() returned
    \* AnatLinear
    ppc,         \* position in Pipeline.build() / run
    uncropped,   \* self.parameters.get("uncropped_image")
    subjects,    \* self.subjects
    sessions,    \* self.sessions
    inputPairs,  \* the (subject, session) pairs the pipeline was given
    capsIsDir,   \* self.caps_directory.is_dir()
    capsImages,  \* the image ids with a cropped image in the CAPS directory
    bidsImages,  \* the image ids with an anat image in the BIDS directory
    processed,   \* what get_processed_images returned
    edges,       \* the connections made by self.connect
    done,        \* the nodes that have finished
    running      \* the nodes that are running

execVars   == <<pc, args, unknown, called, stdoutFiltered>>
procVars   == <<exitStatus, raised, printed, cwd, chdirs, isdir, pkl, launched>>
visVars    == <<vpc, confArgs, wk>>
loaderVars == <<lpc, environ, rootIsDir, tree, sysPath, imported, parsers>>
pipeVars   == <<ppc, uncropped, subjects, sessions, inputPairs,
                capsIsDir, capsImages, bidsImages, processed, edges, done,
                running>>
vars       == <<execVars, procVars, visVars, loaderVars, pipeVars>>

NoExit == <<>>   \* exitStatus is <<>> or <<status>>
NoExc  == "NoExc"

(***************************************************************************)
(* Python string operations, on sequences of characters.                   *)
(***************************************************************************)
IsSpace(c) == c \in {" ", "\t", "\n"}

\* s[i..] starts with t
StartsAt(s, i, t) ==
    /\ i + Len(t) - 1 <= Len(s)
    /\ \A k \in 1..Len(t) : s[i + k - 1] = t[k]

RECURSIVE ReplaceFrom(_, _, _, _)
ReplaceFrom(s, i, old, new) ==
    IF i > Len(s) THEN <<>>
    ELSE IF StartsAt(s, i, old)
         THEN new \o ReplaceFrom(s, i + Len(old), old, new)
         ELSE <<s[i]>> \o ReplaceFrom(s, i + 1, old, new)

\* str.replace(old, new), old not empty: leftmost, non-overlapping
Replace(s, old, new) == ReplaceFrom(s, 1, old, new)

RECURSIVE LStrip(_)
LStrip(s) == IF s # <<>> /\ IsSpace(Head(s)) THEN LStrip(Tail(s)) ELSE s

RECURSIVE RStrip(_)
RStrip(s) ==
    IF s # <<>> /\ IsSpace(s[Len(s)])
    THEN RStrip(SubSeq(s, 1, Len(s) - 1))
    ELSE s

\* str.strip()
Strip(s) == RStrip(LStrip(s))

RECURSIVE SplitFrom(_, _, _, _)
SplitFrom(s, i, sep, cur) ==
    IF i > Len(s) THEN <<cur>>
    ELSE IF s[i] = sep
         THEN <<cur>> \o SplitFrom(s, i + 1, sep, <<>>)
         ELSE SplitFrom(s, i + 1, sep, Append(cur, s[i]))

\* str.split(sep) for a one-character separator
Split(s, sep) == SplitFrom(s, 1, sep, <<>>)


(***************************************************************************)
(* The file system seen by load_conf and visualize, and the objects a      *)
(* clinica.pkl may hold.                                                   *)
(***************************************************************************)
MaxArgs == 2      \* longest argument list given to load_conf
MaxIds == 2       \* longest list of ids given to visualize
MaxUnknown == 1   \* most unrecognised command-line arguments

\* "wd" is the directory the process starts in, "nx" is never a directory
Paths == {"wd", "d1", "nx"}

Program == <<"f", "v">>
Matches == <<"s">>
\* " ${s}.n ${s}": the placeholder twice, a leading space
Arguments1 == <<" ", "$", "{", "s", "}", ".", "n", " ", "$", "{", "s", "}">>
\* "-a  ${t}": no occurrence of ${s}, two consecutive spaces
Arguments2 == <<"-", "a", " ", " ", "$", "{", "t", "}">>

Falsy   == [kind |-> "falsy", hasVis |-> FALSE, visualize |-> <<>>, base_dir |-> "nx"]
Missing == [kind |-> "missing", hasVis |-> FALSE, visualize |-> <<>>, base_dir |-> "nx"]
False   == [kind |-> "False", hasVis |-> FALSE, visualize |-> <<>>, base_dir |-> "nx"]
NoWk    == [kind |-> "None", hasVis |-> FALSE, visualize |-> <<>>, base_dir |-> "nx"]

Workflows ==
    { [kind |-> "workflow", hasVis |-> FALSE, visualize |-> <<>>, base_dir |-> "d1"],
      [kind |-> "workflow", hasVis |-> TRUE,
       visualize |-> <<Program, Arguments1, Matches>>, base_dir |-> "d1"],
      [kind |-> "workflow", hasVis |-> TRUE,
       visualize |-> <<Program, Arguments2, Matches>>, base_dir |-> "nx"] }

\* what cPickle.load can return
Objects == Workflows \cup {Falsy}

\* Python truth of an unpickled object, or of False
Truthy(o) == o.kind = "workflow"

Ids == {<<"7">>, <<"8">>}

Range(f) == { f[i] : i \in DOMAIN f }

SeqsUpTo(S, n) == UNION { [1..k -> S] : k \in 0..n }

InitProc ==
    /\ exitStatus = NoExit
    /\ raised = NoExc
    /\ printed = <<>>
    /\ cwd = "wd"
    /\ chdirs = <<>>
    /\ launched = <<>>
    /\ isdir \in [Paths -> BOOLEAN]
    /\ isdir["wd"] /\ ~isdir["nx"]
    /\ pkl \in [Paths -> Objects \cup {Missing}]
    /\ \A p \in Paths : ~isdir[p] => pkl[p] = Missing

\* exit(status)
Exit(status) == exitStatus' = <<status>>

(***************************************************************************)
(* load_conf(args)                                                         *)
(***************************************************************************)
\* the inner load(path): the unpickled object, or False when
\* <path>/clinica.pkl is not a file
load(path) == IF pkl[path] # Missing THEN pkl[path] ELSE False

\* a slip: the path argument is never used
LoadConfWkIgnoresArgs(a) == load(cwd)

\* the value of wk at line 120
LoadConfWk(a) ==
    IF Len(a) = 0 THEN load(cwd)
    ELSE IF isdir[a[1]] THEN load(a[1])
    ELSE False

load_conf(a) ==
    /\ vpc = "start"
    /\ IF ~Truthy(LoadConfWk(a))
       THEN /\ printed' = Append(printed, "No <clinica.pkl> file found!")
            /\ Exit(0)
            /\ vpc' = "exited"
            /\ wk' = wk
       ELSE /\ wk' = LoadConfWk(a)
            /\ vpc' = "loaded"
            /\ UNCHANGED <<printed, exitStatus>>
    /\ confArgs' = a
    /\ UNCHANGED <<raised, cwd, chdirs, isdir, pkl, launched>>

(***************************************************************************)
(* visualize(clinicaWorkflow, ids, rebase)                                 *)
(***************************************************************************)
\* "${%s}" % matches
Placeholder(matches) == <<"$", "{">> \o matches \o <<"}">>

\* the list given to subprocess.Popen by run_program(id)
RunProgram(vis, id) ==
    <<vis[1]>> \o Split(Strip(Replace(vis[2], Placeholder(vis[3]), id)), " ")

\* [run_program(id) for id in ids], run from directory dir
RunAll(vis, ids, dir) ==
    [i \in 1..Len(ids) |-> [argv |-> RunProgram(vis, ids[i]), cwd |-> dir]]

\* the directory the chdir object moves to
ChdirTarget(w, rebase) == IF rebase = "False" THEN w.base_dir ELSE rebase

\* clinicaWorkflow.data.has_key('visualize')
HasVisualize(w) == w.hasVis

\* a slip: the directory is changed before the workflow is looked at
visualizeChdirFirst(w, ids, rebase) ==
    IF ~isdir[ChdirTarget(w, rebase)]
    THEN /\ raised' = "OSError"
         /\ vpc' = "raised"
         /\ chdirs' = Append(chdirs, cwd)
         /\ UNCHANGED <<printed, exitStatus, cwd, launched>>
    ELSE IF ~HasVisualize(w)
    THEN /\ printed' = Append(printed, "No visualization was defined")
         /\ Exit(0)
         /\ vpc' = "exited"
         /\ chdirs' = chdirs \o <<ChdirTarget(w, rebase), cwd>>
         /\ UNCHANGED <<raised, cwd, launched>>
    ELSE /\ printed' = Append(printed, "visualize")
         /\ launched' = launched \o RunAll(w.visualize, ids, ChdirTarget(w, rebase))
         /\ chdirs' = chdirs \o <<ChdirTarget(w, rebase), cwd>>
         /\ cwd' = cwd
         /\ vpc' = "done"
         /\ UNCHANGED <<raised, exitStatus>>

visualize(w, ids, rebase) ==
    IF ~HasVisualize(w)
    THEN /\ printed' = Append(printed, "No visualization was defined")
         /\ Exit(0)
         /\ vpc' = "exited"
         /\ UNCHANGED <<raised, cwd, chdirs, launched>>
    ELSE IF ~isdir[ChdirTarget(w, rebase)]
    THEN \* os.chdir(base) raises in chdir.__init__; the object's __del__
         \* still runs os.chdir(self.pwd)
         /\ raised' = "OSError"
         /\ vpc' = "raised"
         /\ chdirs' = Append(chdirs, cwd)
         /\ UNCHANGED <<printed, exitStatus, cwd, launched>>
    ELSE \* the programs start in the new directory; the chdir object dies
         \* at the return and its __del__ moves back to self.pwd
         /\ printed' = Append(printed, "visualize")
         /\ launched' = launched \o RunAll(w.visualize, ids, ChdirTarget(w, rebase))
         /\ chdirs' = chdirs \o <<ChdirTarget(w, rebase), cwd>>
         /\ cwd' = cwd
         /\ vpc' = "done"
         /\ UNCHANGED <<raised, exitStatus>>

\* a caller of the module: load_conf, then visualize on what it returned
CallLoadConf ==
    /\ \E a \in SeqsUpTo(Paths, MaxArgs) : load_conf(a)
    /\ UNCHANGED <<execVars, loaderVars, pipeVars>>

CallVisualize ==
    /\ vpc = "loaded"
    /\ \E ids \in SeqsUpTo(Ids, MaxIds), rebase \in {"False"} \cup Paths :
           visualize(wk, ids, rebase)
    /\ UNCHANGED <<confArgs, wk, isdir, pkl>>
    /\ UNCHANGED <<execVars, loaderVars, pipeVars>>

(***************************************************************************)
(* execute(), from the parse of the command line (line 324) on.  The       *)
(* parsers are built before; func is the handler set_defaults attached to  *)
(* the chosen subcommand, "nofunc" when the namespace has no such          *)
(* attribute.                                                              *)
(***************************************************************************)
Handlers == {"vis_parser_fun", "pipeline_list_fun", "run_pipeline"}

\* "7", "7,8", ""
IdOptions == {<<"7">>, <<"7", ",", "8">>, <<>>}

Namespaces ==
    [func : Handlers \cup {"nofunc"}, verbose : BOOLEAN,
     id : IdOptions, rebase : {"False", "d1"}]

\* args = None (line 324)
None == [func |-> "None", verbose |-> FALSE, id |-> <<>>, rebase |-> "False"]

PrintHelp == printed' = Append(printed, "help")

\* lines 326-334
Parse ==
    /\ pc = "start"
    /\ \/ /\ args' \in Namespaces
          /\ unknown' \in SeqsUpTo({"--x"}, MaxUnknown)
          /\ pc' = "parsed"
          /\ UNCHANGED <<printed, exitStatus>>
       \/ \* SystemExit, raised by argcomplete or by a subparser's error()
          /\ Exit(-1)
          /\ pc' = "exited"
          /\ UNCHANGED <<args, unknown, printed>>
       \/ \* any other Exception
          /\ PrintHelp
          /\ Exit(-1)
          /\ pc' = "exited"
          /\ UNCHANGED <<args, unknown>>
    /\ UNCHANGED <<called, stdoutFiltered, raised, cwd, chdirs, isdir, pkl, launched>>
    /\ UNCHANGED <<visVars, loaderVars, pipeVars>>

MissingFuncOnlyNone(a) == a = None

\* args is None or hasattr(args, 'func') is False
MissingFunc(a) == a = None \/ a.func = "nofunc"

\* lines 336-341
Check ==
    /\ pc = "parsed"
    /\ IF unknown # <<>>
       THEN /\ raised' = "ValueError"
            /\ pc' = "raised"
            /\ UNCHANGED <<printed, exitStatus>>
       ELSE IF MissingFunc(args)
       THEN /\ PrintHelp
            /\ Exit(-1)
            /\ pc' = "exited"
            /\ UNCHANGED raised
       ELSE /\ pc' = "checked"
            /\ UNCHANGED <<printed, exitStatus, raised>>
    /\ UNCHANGED <<args, unknown, called, stdoutFiltered, cwd, chdirs, isdir, pkl, launched>>
    /\ UNCHANGED <<visVars, loaderVars, pipeVars>>

\* lines 343-409: without --verbose, stdout is filtered and logging goes
\* to the log file
Configure ==
    /\ pc = "checked"
    /\ stdoutFiltered' = ~args.verbose
    /\ pc' = "configured"
    /\ UNCHANGED <<args, unknown, called, procVars>>
    /\ UNCHANGED <<visVars, loaderVars, pipeVars>>

\* vis_parser_fun(args): the argument of load_conf, args[1:], is evaluated
\* first; args is an argparse Namespace, which has no __getitem__, so the
\* slice raises TypeError before load_conf or visualize is entered
VisParserFun ==
    /\ raised' = "TypeError"
    /\ pc' = "raised"
    /\ UNCHANGED <<printed, exitStatus, cwd, chdirs, isdir, pkl, launched>>

\* pipeline_list_fun(args): one line per pipeline
PipelineListFun ==
    /\ printed' = Append(printed, "pipelines")
    /\ pc' = "done"
    /\ UNCHANGED <<raised, exitStatus, cwd, chdirs, isdir, pkl, launched>>

\* the handler of a run, convert, generate or iotools subcommand
RunPipeline ==
    /\ pc' = "done"
    /\ UNCHANGED procVars

\* line 412: args.func(args)
Dispatch ==
    /\ pc = "configured"
    /\ IF args.func \notin Handlers
       THEN /\ raised' = "AttributeError"
            /\ pc' = "raised"
            /\ UNCHANGED <<called, printed, exitStatus, cwd, chdirs, isdir, pkl, launched>>
       ELSE /\ called' = Append(called, args.func)
            /\ CASE args.func = "vis_parser_fun" -> VisParserFun
                 [] args.func = "pipeline_list_fun" -> PipelineListFun
                 [] OTHER -> RunPipeline
    /\ UNCHANGED <<args, unknown, stdoutFiltered>>
    /\ UNCHANGED <<visVars, loaderVars, pipeVars>>

(***************************************************************************)
(* ClinicaClassLoader.  An entry of the tree is [path, kind, classes]:     *)
(* path is the sequence of names below $CLINICAPATH/extra_dir, kind is     *)
(* "file" or "dir", classes are the classes inspect.getmembers finds in    *)
(* the module a file holds, in its order:                                  *)
(*   "parser"     a concrete subclass of baseclass                         *)
(*   "abstract"   an abstract class                                        *)
(*   "other"      a concrete class that is no subclass of baseclass        *)
(*   "needsargs"  a concrete class whose constructor needs arguments       *)
(***************************************************************************)
NameP      == <<"p">>
NameQ      == <<"q">>
NameCli    == <<"a", "_", "c", "l", "i", ".", "p", "y">>        \* a_cli.py
NameBare   == <<"_", "c", "l", "i", ".", "p", "y">>             \* _cli.py
NamePlain  == <<"b", ".", "p", "y">>                            \* b.py
NameNoDot  == <<"a", "_", "c", "l", "i", "x", "p", "y">>        \* a_clixpy
NamePyc    == <<"a", "_", "c", "l", "i", ".", "p", "y", "c">>   \* a_cli.pyc
NameDirCli == <<"d", "_", "c", "l", "i", ".", "p", "y">>        \* d_cli.py

\* the order os.listdir lists names in
NameOrder ==
    <<NameP, NameQ, NameCli, NameBare, NamePlain, NameNoDot, NamePyc, NameDirCli>>

Modules ==
    { <<"parser">>, <<"other">>, <<>>, <<"abstract", "parser">>,
      <<"needsargs", "parser">> }

Dir(path) == [path |-> path, kind |-> "dir", classes |-> <<>>]
File(path, classes) == [path |-> path, kind |-> "file", classes |-> classes]

\* the entries a tree may hold: directly in the root, under p, under q
RootCandidates == {File(<<NameCli>>, <<"parser">>)}

PCandidates ==
    {Dir(<<NameP>>), Dir(<<NameP, NameQ>>), Dir(<<NameP, NameDirCli>>),
     File(<<NameP, NamePlain>>, <<"parser">>),
     File(<<NameP, NameNoDot>>, <<"parser">>),
     File(<<NameP, NameQ, NameCli>>, <<"parser">>)}
    \cup { File(<<NameP, NameCli>>, m) : m \in Modules }

QCandidates ==
    {Dir(<<NameQ>>), File(<<NameQ, NamePyc>>, <<"parser">>)}
    \cup { File(<<NameQ, NameBare>>, m) : m \in Modules }

\* a tree: one entry per path, every entry inside a directory of the tree
IsTree(t) ==
    /\ \A e, f \in t : e.path = f.path => e = f
    /\ \A e \in t : Len(e.path) > 1 =>
           Dir(SubSeq(e.path, 1, Len(e.path) - 1)) \in t

Trees ==
    { a \cup b \cup c :
        a \in SUBSET RootCandidates,
        b \in {x \in SUBSET PCandidates : IsTree(x)},
        c \in {x \in SUBSET QCandidates : IsTree(x)} }

\* re.match(r".*_cli\.py$", file) is not None: ".*" takes k characters, none
\* a newline; "$" stands at the end or before a last newline
Reg(file) ==
    \E k \in 0..Len(file) :
        /\ \A j \in 1..k : file[j] # "\n"
        /\ StartsAt(file, k + 1, <<"_", "c", "l", "i", ".", "p", "y">>)
        /\ \/ k + 7 = Len(file)
           \/ k + 8 = Len(file) /\ file[k + 8] = "\n"

\* os.listdir(path), for the root (<<>>) or a directory of the tree
ListDir(path) ==
    SelectSeq(NameOrder, LAMBDA n : \E e \in tree : e.path = Append(path, n))

IsDir(path) == Dir(path) \in tree

DiscoverPathIncludesRoot(path) ==
    <<path>> \o
    LET names == SelectSeq(ListDir(path), LAMBDA n : IsDir(Append(path, n)))
    IN  [i \in 1..Len(names) |-> Append(path, names[i])]

\* discover_path_with_subdir(path): the directories directly in path
DiscoverPathWithSubdir(path) ==
    LET names == SelectSeq(ListDir(path), LAMBDA n : IsDir(Append(path, n)))
    IN  [i \in 1..Len(names) |-> Append(path, names[i])]

RECURSIVE FindFilesFrom(_, _)
FindFilesFrom(paths, i) ==
    IF i > Len(paths) THEN <<>>
    ELSE LET names == SelectSeq(ListDir(paths[i]), Reg)
         IN  [k \in 1..Len(names) |-> Append(paths[i], names[k])]
             \o FindFilesFrom(paths, i + 1)

\* find_files(paths, reg): the entries directly in one of paths whose name
\* matches
FindFiles(paths) == FindFilesFrom(paths, 1)

NoneObject  == [kind |-> "None", file |-> <<>>, cls |-> 0]
RaiseResult == [kind |-> "raise", file |-> <<>>, cls |-> 0]

RECURSIVE LoadClassFrom(_, _, _)
LoadClassFrom(file, classes, i) ==
    IF i > Len(classes) THEN NoneObject
    ELSE IF classes[i] = "abstract" THEN LoadClassFrom(file, classes, i + 1)
    ELSE IF classes[i] = "needsargs" THEN RaiseResult
    ELSE IF classes[i] = "parser"
         THEN [kind |-> "instance", file |-> file, cls |-> i]
         ELSE LoadClassFrom(file, classes, i + 1)

\* load_class(baseclass, file): the first instance of baseclass among the
\* module's concrete classes, None when there is none; imp.load_source
\* raises on a directory, a constructor that needs arguments raises
LoadClass(file) ==
    LET e == CHOOSE x \in tree : x.path = file
    IN  IF e.kind = "dir" THEN RaiseResult
        ELSE LoadClassFrom(file, e.classes, 1)

\* add_to_python_path(paths)
AddToPythonPath(paths) ==
    sysPath' = sysPath \o
        SelectSeq(paths, LAMBDA q : \A i \in 1..Len(sysPath) : sysPath[i] # q)

\* load()
Load ==
    /\ lpc = "start"
    /\ IF ~environ \/ ~rootIsDir
       THEN /\ parsers' = <<>>
            /\ lpc' = "returned"
            /\ UNCHANGED <<sysPath, imported>>
       ELSE LET src_path == DiscoverPathWithSubdir(<<>>)
                files_match == FindFiles(src_path)
                results == [i \in 1..Len(files_match) |-> LoadClass(files_match[i])]
                failing == {i \in 1..Len(files_match) : results[i].kind = "raise"}
            IN  /\ AddToPythonPath(src_path)
                /\ IF failing = {}
                   THEN /\ imported' = files_match
                        /\ parsers' = results
                        /\ lpc' = "returned"
                   ELSE LET k == CHOOSE i \in failing : \A j \in failing : i <= j
                        IN  /\ imported' = SubSeq(files_match, 1, k)
                            /\ parsers' = parsers
                            /\ lpc' = "raised"
    /\ UNCHANGED <<environ, rootIsDir, tree>>
    /\ UNCHANGED <<execVars, procVars, visVars, pipeVars>>

InitLoader ==
    /\ lpc = "start"
    /\ environ \in BOOLEAN
    /\ rootIsDir \in BOOLEAN
    /\ tree \in Trees
    /\ ~(environ /\ rootIsDir) => tree = {}
    /\ sysPath = <<>>
    /\ imported = <<>>
    /\ parsers = <<>>

IdleProc ==
    /\ exitStatus = NoExit
    /\ raised = NoExc
    /\ printed = <<>>
    /\ cwd = "wd"
    /\ chdirs = <<>>
    /\ launched = <<>>
    /\ isdir = [p \in Paths |-> p = "wd"]
    /\ pkl = [p \in Paths |-> Missing]

(***************************************************************************)
(* AnatLinear.  Pipeline.build() calls _build_input_node, _build_core_nodes *)
(* and _build_output_node in this order; the workflow engine then runs the  *)
(* graph once per image of the ReadingFiles iterable.                       *)
(***************************************************************************)
MaxImages == 2      \* most (subject, session) pairs given to the pipeline
MaxRunImages == 2   \* most images in a run of the graph
MaxProcs == 2       \* most nodes the engine runs at once (n_procs)

Sub1 == <<"s", "1">>
Sub2 == <<"s", "2">>
Ses1 == <<"e", "1">>
Ses2 == <<"e", "2">>
Pairs == {<<Sub1, Ses1>>, <<Sub1, Ses2>>, <<Sub2, Ses1>>}

\* f"{p_id}_{s_id}"
ImageId(pair) == pair[1] \o <<"_">> \o pair[2]

AllImageIds == { ImageId(pr) : pr \in Pairs }

\* zip(subjects, sessions)
Zip(subs, sess) ==
    [i \in 1..(IF Len(subs) <= Len(sess) THEN Len(subs) ELSE Len(sess)) |->
        <<subs[i], sess[i]>>]

\* clinica_file_reader followed by extract_image_ids: the ids of the asked
\* pairs that have a file in the directory, in the order asked
FoundImageIds(subs, sess, images) ==
    LET ids == [i \in 1..Len(Zip(subs, sess)) |-> ImageId(Zip(subs, sess)[i])]
    IN  SelectSeq(ids, LAMBDA id : id \in images)

\* get_processed_images(caps_directory, subjects, sessions)
GetProcessedImages(subs, sess) ==
    IF capsIsDir THEN FoundImageIds(subs, sess, capsImages) ELSE <<>>

\* a slip: the processed images are kept and the others dropped
ToProcessIdsKeepsProcessed(subs, sess, processed_ids) ==
    {ImageId(Zip(subs, sess)[i]) : i \in 1..Len(Zip(subs, sess))}
        \cap Range(processed_ids)

\* set(input_ids) - set(processed_ids)
ToProcessIds(subs, sess, processed_ids) ==
    {ImageId(Zip(subs, sess)[i]) : i \in 1..Len(Zip(subs, sess))}
        \ Range(processed_ids)

\* list(a set): its elements once each, in any order
Lists(S) ==
    { f \in [1..Cardinality(S) -> S] :
        \A i, j \in 1..Cardinality(S) : f[i] = f[j] => i = j }

\* extract_subjects_sessions_from_filename: each id split at "_"
ExtractSubjectsSessions(ids) ==
    [subjects |-> [i \in 1..Len(ids) |-> Split(ids[i], "_")[1]],
     sessions |-> [i \in 1..Len(ids) |-> Split(ids[i], "_")[2]]]

\* clinica_file_filter: the pairs without a file in the BIDS directory are
\* removed from both lists
ClinicaFileFilter(subs, sess) ==
    LET keep == SelectSeq(Zip(subs, sess), LAMBDA pr : ImageId(pr) \in bidsImages)
    IN  [subjects |-> [i \in 1..Len(keep) |-> keep[i][1]],
         sessions |-> [i \in 1..Len(keep) |-> keep[i][2]]]

\* get_input_fields()
GetInputFields == <<"anat">>

\* get_output_fields()
GetOutputFields == <<"image_id">>

\* the connection self.connect makes: (source, field) -> (destination, field)
Connection(src, srcField, dst, dstField) ==
    [src |-> src, srcField |-> srcField, dst |-> dst, dstField |-> dstField]

\* _build_input_node
BuildInputNode ==
    /\ ppc = "start"
    /\ processed' = GetProcessedImages(subjects, sessions)
    /\ \E to_process_ids \in Lists(ToProcessIds(subjects, sessions, processed')) :
           LET remaining ==
                   IF Len(processed') > 0
                   THEN ExtractSubjectsSessions(to_process_ids)
                   ELSE [subjects |-> subjects, sessions |-> sessions]
               filtered == ClinicaFileFilter(remaining.subjects, remaining.sessions)
           IN  /\ subjects' = filtered.subjects
               /\ sessions' = filtered.sessions
    /\ edges' = edges \cup {Connection("ReadingFiles", "anat", "Input", "anat")}
    /\ ppc' = "input"
    /\ UNCHANGED <<uncropped, inputPairs, capsIsDir, capsImages,
                   bidsImages, done, running>>
    /\ UNCHANGED <<execVars, procVars, visVars, loaderVars>>

CoreConnectionsUnordered(uncropped_image) ==
    { Connection("Input", "anat", "ImageID", "filename"),
      Connection("Input", "anat", "n4biascorrection", "input_image"),
      Connection("Input", "anat", "antsRegistration", "moving_image"),
      Connection("ImageID", "image_id", "antsRegistration", "output_transform_prefix"),
      Connection("ImageID", "image_id", "Output", "image_id"),
      Connection("antsRegistration", "warped_image", "Output", "outfile_reg"),
      Connection("Input", "anat", "WriteEndMessage", "anat") }
    \cup
    IF ~uncropped_image
    THEN { Connection("n4biascorrection", "output_image", "cropnifti", "input_image"),
           Connection("cropnifti", "output_img", "Output", "outfile_crop"),
           Connection("cropnifti", "output_img", "WriteEndMessage", "final_file") }
    ELSE { Connection("antsRegistration", "warped_image", "WriteEndMessage", "final_file") }

\* the connections of _build_core_nodes (lines 296-341)
CoreConnections(uncropped_image) ==
    { Connection("Input", "anat", "ImageID", "filename"),
      Connection("Input", "anat", "n4biascorrection", "input_image"),
      Connection("n4biascorrection", "output_image", "antsRegistration", "moving_image"),
      Connection("ImageID", "image_id", "antsRegistration", "output_transform_prefix"),
      Connection("ImageID", "image_id", "Output", "image_id"),
      Connection("antsRegistration", "warped_image", "Output", "outfile_reg"),
      Connection("Input", "anat", "WriteEndMessage", "anat") }
    \cup
    IF ~uncropped_image
    THEN { Connection("antsRegistration", "warped_image", "cropnifti", "input_image"),
           Connection("cropnifti", "output_img", "Output", "outfile_crop"),
           Connection("cropnifti", "output_img", "WriteEndMessage", "final_file") }
    ELSE { Connection("antsRegistration", "warped_image", "WriteEndMessage", "final_file") }

\* _build_core_nodes
BuildCoreNodes ==
    /\ ppc = "input"
    /\ edges' = edges \cup CoreConnections(uncropped)
    /\ ppc' = "core"
    /\ UNCHANGED <<uncropped, subjects, sessions, inputPairs, capsIsDir,
                   capsImages, bidsImages, processed, done, running>>
    /\ UNCHANGED <<execVars, procVars, visVars, loaderVars>>

\* the connections of _build_output_node (lines 183-208)
OutputConnections(uncropped_image) ==
    { Connection("Input", "anat", "ContainerPath", "bids_or_caps_filename"),
      Connection("Output", "image_id", "GetIDs", "bids_image_id"),
      Connection("ContainerPath", "container", "WriteCaps", "container"),
      Connection("GetIDs", "substitutions", "WriteCaps", "substitutions"),
      Connection("Output", "image_id", "WriteCaps", "@image_id"),
      Connection("Output", "outfile_reg", "WriteCaps", "@outfile_reg") }
    \cup
    IF ~uncropped_image
    THEN { Connection("Output", "outfile_crop", "WriteCaps", "@outfile_crop") }
    ELSE {}

\* _build_output_node
BuildOutputNode ==
    /\ ppc = "core"
    /\ edges' = edges \cup OutputConnections(uncropped)
    /\ ppc' = "built"
    /\ UNCHANGED <<uncropped, subjects, sessions, inputPairs, capsIsDir,
                   capsImages, bidsImages, processed, done, running>>
    /\ UNCHANGED <<execVars, procVars, visVars, loaderVars>>

\* the nodes of the workflow: those a connection names
GraphNodes == { e.src : e \in edges } \cup { e.dst : e \in edges }

\* the images of the run: one per anat file of the ReadingFiles iterable
Images == 1..Len(subjects)

\* the engine starts a node of an image once every node connected into it
\* has finished for that image, while fewer than n_procs nodes are running
StartNode ==
    /\ ppc = "built"
    /\ \E i \in Images, n \in GraphNodes :
           /\ <<i, n>> \notin running \cup done
           /\ Cardinality(running) < MaxProcs
           /\ \A e \in edges : e.dst = n => <<i, e.src>> \in done
           /\ running' = running \cup {<<i, n>>}
    /\ UNCHANGED <<ppc, uncropped, subjects, sessions, inputPairs,
                   capsIsDir, capsImages, bidsImages, processed, edges, done>>
    /\ UNCHANGED <<execVars, procVars, visVars, loaderVars>>

\* a running node finishes
FinishNode ==
    /\ ppc = "built"
    /\ \E x \in running :
           /\ running' = running \ {x}
           /\ done' = done \cup {x}
    /\ UNCHANGED <<ppc, uncropped, subjects, sessions, inputPairs,
                   capsIsDir, capsImages, bidsImages, processed, edges>>
    /\ UNCHANGED <<execVars, procVars, visVars, loaderVars>>

\* the pipeline as constructed: the pairs given, nothing connected
InitPipe ==
    /\ ppc = "start"
    /\ uncropped \in BOOLEAN
    /\ inputPairs \in SeqsUpTo(Pairs, MaxImages)
    /\ subjects = [i \in 1..Len(inputPairs) |-> inputPairs[i][1]]
    /\ sessions = [i \in 1..Len(inputPairs) |-> inputPairs[i][2]]
    /\ capsIsDir \in BOOLEAN
    /\ capsImages \in SUBSET AllImageIds
    /\ ~capsIsDir => capsImages = {}
    /\ bidsImages \in SUBSET AllImageIds
    /\ processed = <<>>
    /\ edges = {}
    /\ done = {}
    /\ running = {}

\* a run on new images: an empty CAPS directory, every image in BIDS
RunPairs == <<<<Sub1, Ses1>>, <<Sub2, Ses1>>, <<Sub1, Ses2>>>>

InitRun ==
    /\ ppc = "start"
    /\ uncropped \in BOOLEAN
    /\ \E n \in 1..MaxRunImages : inputPairs = SubSeq(RunPairs, 1, n)
    /\ subjects = [i \in 1..Len(inputPairs) |-> inputPairs[i][1]]
    /\ sessions = [i \in 1..Len(inputPairs) |-> inputPairs[i][2]]
    /\ capsIsDir = FALSE
    /\ capsImages = {}
    /\ bidsImages = AllImageIds
    /\ processed = <<>>
    /\ edges = {}
    /\ done = {}
    /\ running = {}

InitExec ==
    /\ pc = "start"
    /\ args = None
    /\ unknown = <<>>   \* None: as false as the empty list at line 336
    /\ called = <<>>
    /\ stdoutFiltered = FALSE

IdleExec ==
    /\ pc = "idle"
    /\ args = None
    /\ unknown = <<>>   \* None: as false as the empty list at line 336
    /\ called = <<>>
    /\ stdoutFiltered = FALSE

InitVis == vpc = "start" /\ confArgs = <<>> /\ wk = NoWk
IdleVis == vpc = "idle" /\ confArgs = <<>> /\ wk = NoWk

IdleLoader ==
    /\ lpc = "idle"
    /\ environ = FALSE
    /\ rootIsDir = FALSE
    /\ tree = {}
    /\ sysPath = <<>>
    /\ imported = <<>>
    /\ parsers = <<>>

IdlePipe ==
    /\ ppc = "idle"
    /\ uncropped = FALSE
    /\ subjects = <<>>
    /\ sessions = <<>>
    /\ inputPairs = <<>>
    /\ capsIsDir = FALSE
    /\ capsImages = {}
    /\ bidsImages = {}
    /\ processed = <<>>
    /\ edges = {}
    /\ done = {}
    /\ running = {}

NextExec == Parse \/ Check \/ Configure \/ Dispatch
InitSpecExec == InitExec /\ InitProc /\ IdleVis /\ IdleLoader /\ IdlePipe
SpecExec == InitSpecExec /\ [][NextExec]_vars

NextVis == CallLoadConf \/ CallVisualize
InitSpecVis == IdleExec /\ InitProc /\ InitVis /\ IdleLoader /\ IdlePipe
SpecVis == InitSpecVis /\ [][NextVis]_vars

(***************************************************************************)
(* Properties of execute()                                                 *)
(***************************************************************************)
Ended == pc \in {"exited", "raised", "done"}

\* parsing raised nothing (args was assigned), nothing was left unparsed
\* and the namespace has a func attribute
MayDispatch == args # None /\ unknown = <<>> /\ args.func # "nofunc"

\* C1: on every run of execute() the handler args.func is invoked at most
\* once, and only when parsing raised nothing, no unknown argument remains
\* and the namespace has a func attribute; every other run ends with exit
\* status -1 or a ValueError and invokes no handler.
C1_HandlerOnlyAfterChecks ==
    /\ Len(called) <= 1
    /\ called # <<>> => MayDispatch /\ called = <<args.func>>
    /\ (Ended /\ ~MayDispatch) =>
           /\ exitStatus = <<-1>> \/ raised = "ValueError"
           /\ called = <<>>

C1_Witness ==
    /\ pc = "done"
    /\ called = <<"pipeline_list_fun">>
    /\ MayDispatch

\* C4: the visualize subcommand loads the serialized workflow and, when it
\* defines 'visualize' = (program, arguments, matches), launches the program
\* once per id of the comma-separated --id list, in list order, each time
\* with every ${matches} of arguments replaced by that id.
C4_VisualizeLaunchesPerId ==
    (/\ Ended
     /\ called = <<"vis_parser_fun">>
     /\ pkl["wd"].hasVis
     /\ isdir[ChdirTarget(pkl["wd"], args.rebase)]) =>
        LET ids == Split(args.id, ",") IN
        /\ Len(launched) = Len(ids)
        /\ \A i \in 1..Len(ids) :
               launched[i].argv = RunProgram(pkl["wd"].visualize, ids[i])

(***************************************************************************)
(* Properties of load_conf() and visualize()                               *)
(***************************************************************************)
\* C5: when the workflow's data has no 'visualize' entry, visualize() prints
\* "No visualization was defined" and exits with status 0, launching no
\* program and never changing the working directory.
C5_NoVisualizationExits ==
    (vpc \in {"exited", "raised", "done"} /\ wk # NoWk /\ ~wk.hasVis) =>
        /\ vpc = "exited"
        /\ printed = <<"No visualization was defined">>
        /\ exitStatus = <<0>>
        /\ launched = <<>>
        /\ chdirs = <<>>
        /\ cwd = "wd"

C5_Witness ==
    /\ vpc = "exited"
    /\ wk # NoWk
    /\ ~wk.hasVis
    /\ exitStatus = <<0>>

\* the directory whose clinica.pkl load_conf(confArgs) reads
ConfDir == IF confArgs = <<>> THEN "wd" ELSE confArgs[1]

\* C6: load_conf(args) returns the object unpickled from clinica.pkl in the
\* current directory when args is empty, or in args[0] when args[0] is a
\* directory; in every other case (args[0] is no directory, the file is
\* missing, the object is falsy) it prints "No <clinica.pkl> file found!"
\* and exits with status 0 instead of returning.
C6_LoadConfResult ==
    vpc \in {"loaded", "exited", "raised", "done"} =>
        IF /\ confArgs = <<>> \/ isdir[confArgs[1]]
           /\ pkl[ConfDir] \in Workflows
        THEN /\ wk = pkl[ConfDir]
             /\ vpc = "loaded" => exitStatus = NoExit /\ printed = <<>>
        ELSE /\ vpc = "exited"
             /\ wk = NoWk
             /\ printed = <<"No <clinica.pkl> file found!">>
             /\ exitStatus = <<0>>

C6_Witness ==
    /\ vpc = "loaded"
    /\ confArgs # <<>>
    /\ wk = pkl[confArgs[1]]
    /\ pkl["wd"] # wk

NextLoader == Load
InitSpecLoader == IdleExec /\ IdleProc /\ IdleVis /\ InitLoader /\ IdlePipe
SpecLoader == InitSpecLoader /\ [][NextLoader]_vars

(***************************************************************************)
(* Properties of ClinicaClassLoader.load()                                 *)
(***************************************************************************)
LastName(path) == path[Len(path)]

\* the entries lying directly in a directory directly under the root
InSubdir(e) == Len(e.path) = 2

\* C2: load() returns a list with exactly one entry per discovered file
\* whose name matches the pattern, and every entry of that list is an
\* instance of baseclass.
C2_EveryEntryIsInstance ==
    lpc = "returned" =>
        /\ Len(parsers) = Len(imported)
        /\ \A i \in 1..Len(parsers) :
               /\ parsers[i].kind = "instance"
               /\ parsers[i].file = imported[i]

\* C3: load() scans the directory tree under $CLINICAPATH/extra_dir: every
\* file at any depth of that tree whose name matches `.*_cli\.py$` is
\* imported, and no file whose name does not match is imported.
C3_EveryDepthImported ==
    lpc = "returned" /\ environ /\ rootIsDir =>
        \A e \in tree : e.kind = "file" =>
            (e.path \in Range(imported) <=> Reg(LastName(e.path)))

\* C3, amended: load() imports the entries that lie directly in a directory
\* directly under $CLINICAPATH/extra_dir and whose name matches
\* `.*_cli\.py$`, each at most once and nothing else; when load() returns,
\* every such entry has been imported.
C3_SubdirEntriesImported ==
    lpc \in {"returned", "raised"} =>
        /\ \A i \in 1..Len(imported) :
               /\ \E e \in tree : e.path = imported[i] /\ InSubdir(e)
               /\ Reg(LastName(imported[i]))
               /\ \A j \in 1..Len(imported) : imported[j] = imported[i] => j = i
        /\ lpc = "returned" /\ environ /\ rootIsDir =>
               \A e \in tree :
                   InSubdir(e) /\ Reg(LastName(e.path)) => e.path \in Range(imported)

\* a tree with matching files at depth 1, 2 and 3 and a file a_clixpy
C3_Witness ==
    /\ lpc = "returned"
    /\ imported = <<<<NameP, NameCli>>, <<NameQ, NameBare>>>>
    /\ File(<<NameCli>>, <<"parser">>) \in tree
    /\ File(<<NameP, NameQ, NameCli>>, <<"parser">>) \in tree
    /\ File(<<NameP, NameNoDot>>, <<"parser">>) \in tree
    /\ File(<<NameQ, NamePyc>>, <<"parser">>) \in tree

NextPipe == BuildInputNode \/ BuildCoreNodes \/ BuildOutputNode
InitSpecPipe == IdleExec /\ IdleProc /\ IdleVis /\ IdleLoader /\ InitPipe
SpecPipe == InitSpecPipe /\ [][NextPipe]_vars

NextRun ==
    BuildInputNode \/ BuildCoreNodes \/ BuildOutputNode \/ StartNode \/ FinishNode
InitSpecRun == IdleExec /\ IdleProc /\ IdleVis /\ IdleLoader /\ InitRun
SpecRun == InitSpecRun /\ [][NextRun]_vars

(***************************************************************************)
(* Properties of AnatLinear                                                *)
(***************************************************************************)
Started(i, n) == <<i, n>> \in running \cup done
Finished(i, n) == <<i, n>> \in done

\* C7: in the AnatLinear graph N4 bias correction takes the input anat
\* image, registration takes the bias-corrected image as moving image and,
\* when cropping is enabled, the crop step takes the registration's warped
\* image; so for every image bias correction finishes before registration
\* starts and registration finishes before cropping starts.
C7_StepsOrdered ==
    ppc \in {"core", "built"} =>
        /\ Connection("Input", "anat", "n4biascorrection", "input_image") \in edges
        /\ Connection("n4biascorrection", "output_image",
                      "antsRegistration", "moving_image") \in edges
        /\ ~uncropped =>
               Connection("antsRegistration", "warped_image",
                          "cropnifti", "input_image") \in edges
        /\ \A i \in Images :
               /\ Started(i, "antsRegistration") => Finished(i, "n4biascorrection")
               /\ Started(i, "cropnifti") =>
                      ~uncropped /\ Finished(i, "antsRegistration")

\* the second image is being cropped while the first is not yet corrected
C7_Witness ==
    /\ ppc = "built"
    /\ <<2, "cropnifti">> \in running
    /\ Finished(2, "antsRegistration")
    /\ ~Started(1, "n4biascorrection")

\* C8: after _build_input_node, self.subjects and self.sessions have equal
\* length, every remaining (subject, session) pair was one of the input
\* pairs, and no remaining pair has its id subject_session in the list
\* returned by get_processed_images.
C8_ProcessedImagesIgnored ==
    ppc # "start" /\ ppc # "idle" =>
        /\ Len(subjects) = Len(sessions)
        /\ \A i \in 1..Len(subjects) :
               /\ <<subjects[i], sessions[i]>> \in Range(inputPairs)
               /\ ImageId(<<subjects[i], sessions[i]>>) \notin Range(processed)

\* two pairs given, one already processed, the other kept
C8_Witness ==
    /\ ppc = "input"
    /\ Len(inputPairs) = 2
    /\ Len(processed) = 1
    /\ Len(subjects) = 1
    /\ ImageId(<<subjects[1], sessions[1]>>) \notin Range(processed)

\* C9: get_input_fields() and get_output_fields() list every possible input
\* and output: every field of the input node and of the output node that
\* _build_core_nodes or _build_output_node connects is in the returned list.
C9_FieldsListed ==
    ppc = "built" =>
        \A e \in edges :
            /\ e.src = "Input" => e.srcField \in Range(GetInputFields)
            /\ e.dst = "Input" => e.dstField \in Range(GetInputFields)
            /\ e.src = "Output" => e.srcField \in Range(GetOutputFields)
            /\ e.dst = "Output" => e.dstField \in Range(GetOutputFields)

=============================================================================
